---- MODULE Spec2Model ----
(***************************************************************************)
(* A model of stringcheese.py: the variants build_automaton registers,     *)
(* their decoders, generate_haystacks, postprocess_match and the scan loop *)
(* of extract_matches.                                                     *)
(*                                                                         *)
(* Conventions.  A Python bytes object is a sequence of integers 0..255.   *)
(* A Python str that holds only ASCII is the sequence of its code points.  *)
(* Offsets (end_index, start_index, startpos) keep Python's 0-based        *)
(* values; Slice and Stride translate them to TLA+'s 1-based sequences.    *)
(* A call that may fail returns a record [st, val]: st = "ok" with the     *)
(* returned bytes, st = "none" for a returned None, st = "raise" for an    *)
(* exception that leaves the callee.                                       *)
(* A label that Python formats with an f-string is the same string, its    *)
(* numbers formatted by ToString: f'XOR_{k}' is "XOR_" \o ToString(k).     *)
(***************************************************************************)
EXTENDS Integers, Sequences, FiniteSets, TLC

MAX_FLAG_LENGTH == 2000
CLOSING_CHAR == 125

\* ----------------------------------------------------------------------
\* Python values and slicing
\* ----------------------------------------------------------------------

Ok(b) == [st |-> "ok", val |-> b]
None == [st |-> "none", val |-> <<>>]
Raise == [st |-> "raise", val |-> <<>>]

Min(a, b) == IF a <= b THEN a ELSE b
Max(a, b) == IF a >= b THEN a ELSE b

\* Python's clamping of a slice bound i for a sequence of length n.
SliceBound(i, n) == IF i < 0 THEN Max(i + n, 0) ELSE Min(i, n)

\* s[a:b]
Slice(s, a, b) ==
    LET lo == SliceBound(a, Len(s))
        hi == SliceBound(b, Len(s))
    IN  IF hi <= lo THEN <<>> ELSE [i \in 1..(hi - lo) |-> s[lo + i]]

\* s[a:]
SliceFrom(s, a) == Slice(s, a, Len(s))

\* s[:b]
SliceTo(s, b) == Slice(s, 0, b)

\* s[start::step], start >= 0, step >= 1
Stride(s, start, step) ==
    IF start >= Len(s) THEN <<>>
    ELSE [i \in 1..(((Len(s) - start - 1) \div step) + 1) |-> s[start + (i - 1) * step + 1]]

\* s[::-1]
Reversed(s) == [i \in 1..Len(s) |-> s[Len(s) + 1 - i]]

\* The smallest member of a non-empty set of integers.
Least(S) == CHOOSE x \in S : \A y \in S : x <= y

\* The loop  for i in range(len(match)): if <bad>: match = match[:i]; break
\* where bad is the set of positions (1-based) whose byte fails the test.
CutAtFirst(match, bad) == IF bad = {} THEN match ELSE SliceTo(match, Least(bad) - 1)

\* bytes.rstrip(c) for a single byte c
Rstrip(s, c) ==
    LET keep == {i \in 1..Len(s) : s[i] # c}
    IN  IF keep = {} THEN <<>> ELSE SliceTo(s, CHOOSE x \in keep : \A y \in keep : y <= x)

\* The bit of byte b with weight 2^(7-k), k in 0..7 (k = 0 is the top bit).
Pow2(k) == CASE k = 0 -> 1 [] k = 1 -> 2 [] k = 2 -> 4 [] k = 3 -> 8 [] k = 4 -> 16
             [] k = 5 -> 32 [] k = 6 -> 64 [] k = 7 -> 128
BitOf(b, k) == (b \div Pow2(7 - k)) % 2

\* Bit p (0-based, big endian) of the bit string of the bytes s, 0 past its end.
BitAt(s, p) == IF (p \div 8) + 1 > Len(s) THEN 0 ELSE BitOf(s[(p \div 8) + 1], p % 8)

\* a ^ b on 0..255
RECURSIVE XorInt(_, _)
XorInt(a, b) ==
    IF a = 0 /\ b = 0 THEN 0
    ELSE (((a % 2) + (b % 2)) % 2) + 2 * XorInt(a \div 2, b \div 2)

\* bytes(xorval ^ x for x in s)
XorBytes(xorval, s) == [i \in 1..Len(s) |-> XorInt(xorval, s[i])]

\* b''.join(ss), split in halves to keep the recursion shallow.
RECURSIVE Concat(_)
Concat(ss) ==
    IF Len(ss) = 0 THEN <<>>
    ELSE IF Len(ss) = 1 THEN ss[1]
    ELSE Concat(SliceTo(ss, Len(ss) \div 2)) \o Concat(SliceFrom(ss, Len(ss) \div 2))

\* ----------------------------------------------------------------------
\* base64 (base64.b64encode, base64.b64decode = binascii.a2b_base64)
\* ----------------------------------------------------------------------

PadChar == 61

B64Char(v) ==
    IF v < 26 THEN 65 + v
    ELSE IF v < 52 THEN 97 + (v - 26)
    ELSE IF v < 62 THEN 48 + (v - 52)
    ELSE IF v = 62 THEN 43 ELSE 47

\* table_a2b_base64: the 6-bit value of a character, 64 for a character
\* outside the alphabet.
B64Val(c) ==
    IF c >= 65 /\ c <= 90 THEN c - 65
    ELSE IF c >= 97 /\ c <= 122 THEN c - 97 + 26
    ELSE IF c >= 48 /\ c <= 57 THEN c - 48 + 52
    ELSE IF c = 43 THEN 62
    ELSE IF c = 47 THEN 63 ELSE 64

\* The n-bit group starting at bit p of s.
RECURSIVE BitGroup(_, _, _)
BitGroup(s, p, n) ==
    IF n = 0 THEN 0 ELSE 2 * BitGroup(s, p, n - 1) + BitAt(s, p + n - 1)

b64encode(s) ==
    LET groups == (Len(s) + 2) \div 3
        nchars == (8 * Len(s) + 5) \div 6
    IN  [j \in 1..(4 * groups) |->
            IF j > nchars THEN PadChar ELSE B64Char(BitGroup(s, 6 * (j - 1), 6))]

\* binascii.a2b_base64(s, strict_mode=False): st is [quad, left, pads, out],
\* one step per character, stopping at a complete pad sequence.
RECURSIVE a2b_base64(_, _, _, _, _, _)
a2b_base64(s, i, quad, left, pads, out) ==
    IF i > Len(s) THEN (IF quad # 0 THEN Raise ELSE Ok(out))
    ELSE IF s[i] = PadChar THEN
        IF quad >= 2 /\ quad + pads + 1 >= 4 THEN Ok(out)
        ELSE a2b_base64(s, i + 1, quad, left, IF quad >= 2 THEN pads + 1 ELSE pads, out)
    ELSE IF B64Val(s[i]) >= 64 THEN a2b_base64(s, i + 1, quad, left, pads, out)
    ELSE LET v == B64Val(s[i]) IN
        CASE quad = 0 -> a2b_base64(s, i + 1, 1, v, 0, out)
          [] quad = 1 -> a2b_base64(s, i + 1, 2, v % 16, 0,
                                    Append(out, left * 4 + (v \div 16)))
          [] quad = 2 -> a2b_base64(s, i + 1, 3, v % 4, 0,
                                    Append(out, left * 16 + (v \div 4)))
          [] quad = 3 -> a2b_base64(s, i + 1, 0, 0, 0, Append(out, left * 64 + v))

b64decode(s) == a2b_base64(s, 1, 0, 0, 0, <<>>)

\* while len(trim_match) % n: trim_match += b'='
PadTo(s, n) == s \o [i \in 1..((n - (Len(s) % n)) % n) |-> PadChar]

\* The trimming loop of b64_decoder, from trim_len downwards.
RECURSIVE b64_trim(_, _)
b64_trim(match, trim_len) ==
    IF trim_len < 0 THEN None
    ELSE IF trim_len % 4 = 1 THEN b64_trim(match, trim_len - 1)
    ELSE LET r == b64decode(PadTo(SliceTo(match, trim_len), 4))
         IN  IF r.st = "ok" THEN r ELSE b64_trim(match, trim_len - 1)

b64_decoder(match) ==
    LET r == b64decode(match)
    IN  IF r.st = "ok" THEN r ELSE b64_trim(match, Len(match))

\* ----------------------------------------------------------------------
\* base32 (base64.b32encode, base64.b32decode)
\* ----------------------------------------------------------------------

B32Char(v) == IF v < 26 THEN 65 + v ELSE 50 + (v - 26)

\* _b32rev: the 5-bit value of a character, 32 for a character outside
\* the alphabet (a KeyError in the library).
B32Val(c) ==
    IF c >= 65 /\ c <= 90 THEN c - 65
    ELSE IF c >= 50 /\ c <= 55 THEN c - 50 + 26 ELSE 32

b32encode(s) ==
    LET groups == (Len(s) + 4) \div 5
        nchars == (8 * Len(s) + 4) \div 5
    IN  [j \in 1..(8 * groups) |->
            IF j > nchars THEN PadChar ELSE B32Char(BitGroup(s, 5 * (j - 1), 5))]

\* Byte k (0-based) of the 40-bit accumulator of one quantum q, whose
\* characters are left-aligned (acc <<= 5 * padchars for the last one).
B32QuantumByte(q, k) ==
    LET bit(p) == IF (p \div 5) + 1 > Len(q) THEN 0
                  ELSE (B32Val(q[(p \div 5) + 1]) \div Pow2(4 - (p % 5))) % 2
    IN  128 * bit(8 * k) + 64 * bit(8 * k + 1) + 32 * bit(8 * k + 2)
        + 16 * bit(8 * k + 3) + 8 * bit(8 * k + 4) + 4 * bit(8 * k + 5)
        + 2 * bit(8 * k + 6) + bit(8 * k + 7)

\* base64.b32decode(s): the length check, the pad count, the quanta, and
\* the cut of the last quantum to (43 - 5 * padchars) // 8 bytes.
b32decode(s) ==
    LET l == Len(s)
        t == Rstrip(s, PadChar)
        padchars == l - Len(t)
        nq == (Len(t) + 7) \div 8
        leftover == (43 - 5 * padchars) \div 8
        nbytes == IF padchars > 0 /\ nq > 0 THEN 5 * (nq - 1) + leftover ELSE 5 * nq
    IN  IF l % 8 # 0 THEN Raise
        ELSE IF \E i \in 1..Len(t) : B32Val(t[i]) >= 32 THEN Raise
        ELSE IF padchars \notin {0, 1, 3, 4, 6} THEN Raise
        ELSE Ok([j \in 1..nbytes |->
                    B32QuantumByte(Slice(t, 8 * ((j - 1) \div 5), 8 * ((j - 1) \div 5) + 8),
                                   (j - 1) % 5)])

\* The trimming loop of b32_decoder, from trim_len downwards.
RECURSIVE b32_trim(_, _)
b32_trim(match, trim_len) ==
    IF trim_len < 0 THEN None
    ELSE IF trim_len % 8 = 1 THEN b32_trim(match, trim_len - 1)
    ELSE LET r == b32decode(PadTo(SliceTo(match, trim_len), 8))
         IN  IF r.st = "ok" THEN r ELSE b32_trim(match, trim_len - 1)

b32_decoder(match) ==
    LET r == b32decode(match)
    IN  IF r.st = "ok" THEN r ELSE b32_trim(match, Len(match))

\* ----------------------------------------------------------------------
\* rot13, rot47 and str.encode()
\* ----------------------------------------------------------------------

\* str.encode() (UTF-8) of one code point below 0x110000.
Utf8(cp) ==
    IF cp < 128 THEN <<cp>>
    ELSE IF cp < 2048 THEN <<192 + (cp \div 64), 128 + (cp % 64)>>
    ELSE IF cp < 65536 THEN
        <<224 + (cp \div 4096), 128 + ((cp \div 64) % 64), 128 + (cp % 64)>>
    ELSE <<240 + (cp \div 262144), 128 + ((cp \div 4096) % 64),
           128 + ((cp \div 64) % 64), 128 + (cp % 64)>>

\* str.encode() of a sequence of code points.
EncodeUtf8(cps) == Concat([i \in 1..Len(cps) |-> Utf8(cps[i])])

\* d.get(chr(c), chr(c)) with the table crypt_rot13 builds.
Rot13Char(c) ==
    IF c >= 65 /\ c <= 90 THEN ((c - 65 + 13) % 26) + 65
    ELSE IF c >= 97 /\ c <= 122 THEN ((c - 97 + 13) % 26) + 97 ELSE c

\* d.get(chr(c), chr(c)) with the table crypt_rot47 builds.
Rot47Char(c) ==
    IF c >= 33 /\ c < 33 + 47 THEN c + 47
    ELSE IF c >= 33 + 47 /\ c < 33 + 94 THEN c - 47 ELSE c

crypt_rot13(message) == EncodeUtf8([i \in 1..Len(message) |-> Rot13Char(message[i])])

crypt_rot47(message) == EncodeUtf8([i \in 1..Len(message) |-> Rot47Char(message[i])])

\* ----------------------------------------------------------------------
\* hex and binary
\* ----------------------------------------------------------------------

HexDigit(v) == IF v < 10 THEN 48 + v ELSE 97 + (v - 10)

\* c in b'0123456789abcdef'
IsHexChar(c) == (c >= 48 /\ c <= 57) \/ (c >= 97 /\ c <= 102)

HexVal(c) == IF c <= 57 THEN c - 48 ELSE c - 97 + 10

\* binascii.hexlify
hexlify(s) ==
    [j \in 1..(2 * Len(s)) |->
        HexDigit(IF j % 2 = 1 THEN s[(j + 1) \div 2] \div 16 ELSE s[(j + 1) \div 2] % 16)]

\* binascii.unhexlify on an even number of hex digits
unhexlify(s) ==
    [j \in 1..(Len(s) \div 2) |-> 16 * HexVal(s[2 * j - 1]) + HexVal(s[2 * j])]

\* if len(match) % 2: match = match[:-1]
DropOdd(match) == IF Len(match) % 2 # 0 THEN SliceTo(match, -1) ELSE match

\* while len(match) % 8: match = match[:-1]
DropToOctets(match) == SliceTo(match, Len(match) - (Len(match) % 8))

NotHexChar(c) == ~IsHexChar(c)

hex_decoder(match) ==
    Ok(unhexlify(DropOdd(CutAtFirst(match, {i \in 1..Len(match) : NotHexChar(match[i])}))))

AboveNibble(c) == c > 15

hex_bytes_decoder(match) ==
    LET m == DropOdd(CutAtFirst(match, {i \in 1..Len(match) : AboveNibble(match[i])}))
    IN  Ok([j \in 1..(Len(m) \div 2) |-> (m[2 * j - 1] * 16) + m[2 * j]])

\* int(bitstring, 2).to_bytes(len(bitstring) // 8, byteorder='big') for a
\* string of '0' and '1' whose length is a multiple of 8; int(b'', 2)
\* raises ValueError.
bitstring_to_bytes(bitstring) ==
    IF bitstring = <<>> THEN Raise
    ELSE Ok([j \in 1..(Len(bitstring) \div 8) |->
                128 * (bitstring[8 * j - 7] - 48) + 64 * (bitstring[8 * j - 6] - 48)
                + 32 * (bitstring[8 * j - 5] - 48) + 16 * (bitstring[8 * j - 4] - 48)
                + 8 * (bitstring[8 * j - 3] - 48) + 4 * (bitstring[8 * j - 2] - 48)
                + 2 * (bitstring[8 * j - 1] - 48) + (bitstring[8 * j] - 48)])

NotBinChar(c) == c # 48 /\ c # 49

binary_decoder(match) ==
    bitstring_to_bytes(
        DropToOctets(CutAtFirst(match, {i \in 1..Len(match) : NotBinChar(match[i])})))

AboveBit(c) == c > 1

binary_bytes_decoder(match) ==
    LET m == DropToOctets(CutAtFirst(match, {i \in 1..Len(match) : AboveBit(match[i])}))
    IN  bitstring_to_bytes([i \in 1..Len(m) |-> 48 + m[i]])

\* ''.join(f'{pb:08b}' for pb in pattern).encode()
BinText(pattern) ==
    [j \in 1..(8 * Len(pattern)) |-> 48 + BitAt(pattern, j - 1)]

\* ----------------------------------------------------------------------
\* The text codecs: bytes.decode(codec) and str.encode(codec)
\* ----------------------------------------------------------------------

\* sys.byteorder of the interpreter: the order 'utf-16' and 'utf-32' write,
\* and read when the data starts with no byte order mark.
NativeLittleEndian == TRUE

IsHighSurrogate(u) == u >= 55296 /\ u <= 56319
IsLowSurrogate(u) == u >= 56320 /\ u <= 57343

\* The 16-bit units of an even number of bytes.
Utf16Units(s, le) ==
    [j \in 1..(Len(s) \div 2) |->
        IF le THEN s[2 * j - 1] + 256 * s[2 * j] ELSE 256 * s[2 * j - 1] + s[2 * j]]

\* The code points of 16-bit units from unit i on; a lone surrogate raises.
RECURSIVE Utf16CodePoints(_, _, _)
Utf16CodePoints(units, i, out) ==
    IF i > Len(units) THEN Ok(out)
    ELSE IF IsHighSurrogate(units[i]) THEN
        IF i + 1 <= Len(units) /\ IsLowSurrogate(units[i + 1])
        THEN Utf16CodePoints(units, i + 2,
                 Append(out, 65536 + (units[i] - 55296) * 1024 + (units[i + 1] - 56320)))
        ELSE Raise
    ELSE IF IsLowSurrogate(units[i]) THEN Raise
    ELSE Utf16CodePoints(units, i + 1, Append(out, units[i]))

\* bytes.decode('utf-16-le') / bytes.decode('utf-16-be'), errors='strict'
DecodeUtf16(s, le) ==
    IF Len(s) % 2 # 0 THEN Raise ELSE Utf16CodePoints(Utf16Units(s, le), 1, <<>>)

\* bytes.decode('utf-16'): a leading byte order mark selects the order and
\* is dropped, without one the native order is used.
DecodeUtf16Bom(s) ==
    IF Len(s) >= 2 /\ s[1] = 255 /\ s[2] = 254 THEN DecodeUtf16(SliceFrom(s, 2), TRUE)
    ELSE IF Len(s) >= 2 /\ s[1] = 254 /\ s[2] = 255 THEN DecodeUtf16(SliceFrom(s, 2), FALSE)
    ELSE DecodeUtf16(s, NativeLittleEndian)

\* The four bytes of unit j, most significant first.
Utf32Unit(s, j, le) ==
    IF le THEN <<s[4 * j], s[4 * j - 1], s[4 * j - 2], s[4 * j - 3]>>
    ELSE <<s[4 * j - 3], s[4 * j - 2], s[4 * j - 1], s[4 * j]>>

\* A unit is a code point when it is below 0x110000 and no surrogate.
Utf32UnitOk(u) ==
    /\ u[1] = 0
    /\ u[2] <= 16
    /\ ~(u[2] = 0 /\ u[3] >= 216 /\ u[3] <= 223)

\* bytes.decode('utf-32-le') / bytes.decode('utf-32-be'), errors='strict'
DecodeUtf32(s, le) ==
    IF Len(s) % 4 # 0 THEN Raise
    ELSE IF \E j \in 1..(Len(s) \div 4) : ~Utf32UnitOk(Utf32Unit(s, j, le)) THEN Raise
    ELSE Ok([j \in 1..(Len(s) \div 4) |->
                LET u == Utf32Unit(s, j, le) IN 65536 * u[2] + 256 * u[3] + u[4]])

\* bytes.decode('utf-32')
DecodeUtf32Bom(s) ==
    IF Len(s) >= 4 /\ s[1] = 255 /\ s[2] = 254 /\ s[3] = 0 /\ s[4] = 0
    THEN DecodeUtf32(SliceFrom(s, 4), TRUE)
    ELSE IF Len(s) >= 4 /\ s[1] = 0 /\ s[2] = 0 /\ s[3] = 254 /\ s[4] = 255
    THEN DecodeUtf32(SliceFrom(s, 4), FALSE)
    ELSE DecodeUtf32(s, NativeLittleEndian)

\* match.decode(codec)
DecodeCodec(codec, s) ==
    CASE codec = "utf-16" -> DecodeUtf16Bom(s)
      [] codec = "utf-16-be" -> DecodeUtf16(s, FALSE)
      [] codec = "utf-16-le" -> DecodeUtf16(s, TRUE)
      [] codec = "utf-32" -> DecodeUtf32Bom(s)
      [] codec = "utf-32-be" -> DecodeUtf32(s, FALSE)
      [] codec = "utf-32-le" -> DecodeUtf32(s, TRUE)

\* One ASCII code point as a unit of `width` bytes.
WideUnit(cp, width, le) ==
    [k \in 1..width |-> IF (le /\ k = 1) \/ (~le /\ k = width) THEN cp ELSE 0]

\* pattern.decode().encode(codec) for a pattern of ASCII bytes: 'utf-16' and
\* 'utf-32' write a byte order mark and then the native order.
EncodeCodec(codec, pattern) ==
    LET units(width, le) == Concat([i \in 1..Len(pattern) |-> WideUnit(pattern[i], width, le)])
    IN  CASE codec = "utf-16" ->
               (IF NativeLittleEndian THEN <<255, 254>> ELSE <<254, 255>>)
               \o units(2, NativeLittleEndian)
          [] codec = "utf-16-be" -> units(2, FALSE)
          [] codec = "utf-16-le" -> units(2, TRUE)
          [] codec = "utf-32" ->
               (IF NativeLittleEndian THEN <<255, 254, 0, 0>> ELSE <<0, 0, 254, 255>>)
               \o units(4, NativeLittleEndian)
          [] codec = "utf-32-be" -> units(4, FALSE)
          [] codec = "utf-32-le" -> units(4, TRUE)

\* codec_decoder: decode, on failure drop the last byte and retry, None
\* once nothing is left.
RECURSIVE codec_decoder(_, _)
codec_decoder(codec, match) ==
    IF match = <<>> THEN None
    ELSE LET r == DecodeCodec(codec, match)
         IN  IF r.st = "ok" THEN Ok(EncodeUtf8(r.val))
             ELSE codec_decoder(codec, SliceTo(match, -1))

Codecs == <<"utf-16", "utf-16-be", "utf-16-le", "utf-32", "utf-32-be", "utf-32-le">>

\* ----------------------------------------------------------------------
\* build_automaton: the variants, in the order add_word receives them
\* ----------------------------------------------------------------------

\* A decoder is a function value of the program; here the function's name
\* and what its closure holds (the codec of codec_decoder, the default
\* argument xorval of the lambda).
Decoder(kind, codec, xorval) == [kind |-> kind, codec |-> codec, xorval |-> xorval]

\* The value add_word stores: (pattern, enc_desc, decoder).
Variant(search_bytes, enc_desc, decoder) ==
    [pattern |-> search_bytes, enc_desc |-> enc_desc, decoder |-> decoder]

\* decoder(match)
Decode(decoder, match) ==
    CASE decoder.kind = "identity_decoder" -> Ok(match)
      [] decoder.kind = "b64_decoder" -> b64_decoder(match)
      [] decoder.kind = "b32_decoder" -> b32_decoder(match)
      [] decoder.kind = "codec_decoder" -> codec_decoder(decoder.codec, match)
      [] decoder.kind = "xor_decoder" -> Ok(XorBytes(decoder.xorval, match))
      [] decoder.kind = "hex_decoder" -> hex_decoder(match)
      [] decoder.kind = "hex_bytes_decoder" -> hex_bytes_decoder(match)
      [] decoder.kind = "binary_decoder" -> binary_decoder(match)
      [] decoder.kind = "crypt_rot13" -> Ok(crypt_rot13(match))
      [] decoder.kind = "crypt_rot47" -> Ok(crypt_rot47(match))
      [] decoder.kind = "binary_bytes_decoder" -> binary_bytes_decoder(match)

\* B64Pattern with the test the decoder's trimming loop uses: a symbol is
\* dropped only when the stripped length is 1 more than a multiple of 4.
B64PatternMod4(pattern) ==
    LET b64pattern == Rstrip(b64encode(pattern), PadChar)
    IN  IF Len(b64pattern) % 4 = 1 THEN SliceTo(b64pattern, -1) ELSE b64pattern

\* b64pattern: b64encode(pattern).rstrip(b'='), one symbol shorter when
\* len(b64pattern) % 3 is non-zero.
B64Pattern(pattern) ==
    LET b64pattern == Rstrip(b64encode(pattern), PadChar)
    IN  IF Len(b64pattern) % 3 # 0 THEN SliceTo(b64pattern, -1) ELSE b64pattern

\* b32pattern: b32encode(pattern).rstrip(b'='), one symbol shorter when
\* len(b32pattern) % 7 is non-zero.
B32Pattern(pattern) ==
    LET b32pattern == Rstrip(b32encode(pattern), PadChar)
    IN  IF Len(b32pattern) % 7 # 0 THEN SliceTo(b32pattern, -1) ELSE b32pattern

\* int(x) for an element x of a bytes object: the element is an int already.
IntOfByte(x) == x

\* bytes(int(x) for x in hex_pattern)
RawHexPattern(hex_pattern) == [i \in 1..Len(hex_pattern) |-> IntOfByte(hex_pattern[i])]

\* bytes(int(x) for x in bin_pattern)
RawBinPattern(bin_pattern) == [i \in 1..Len(bin_pattern) |-> IntOfByte(bin_pattern[i])]

\* XorDecoder with a late-binding closure: without the default argument
\* every lambda reads the loop variable after the loop, 255.
XorDecoderLateBinding(xorval) == Decoder("xor_decoder", "", 255)

\* The lambda of one round of the xor loop: xorval is bound as a default
\* argument when the lambda is created.
XorDecoder(xorval) == Decoder("xor_decoder", "", xorval)

XorVariant(pattern, xorval) ==
    Variant(XorBytes(xorval, pattern), "XOR_" \o ToString(xorval), XorDecoder(xorval))

CodecVariant(pattern, codec) ==
    Variant(EncodeCodec(codec, pattern), codec, Decoder("codec_decoder", codec, 0))

build_automaton(pattern) ==
    <<Variant(pattern, "ASCII", Decoder("identity_decoder", "", 0)),
      Variant(B64Pattern(pattern), "base64", Decoder("b64_decoder", "", 0)),
      Variant(B32Pattern(pattern), "base32", Decoder("b32_decoder", "", 0))>>
    \o [c \in 1..Len(Codecs) |-> CodecVariant(pattern, Codecs[c])]
    \o [xorval \in 1..255 |-> XorVariant(pattern, xorval)]
    \o <<Variant(hexlify(pattern), "hex", Decoder("hex_decoder", "", 0)),
         Variant(RawHexPattern(hexlify(pattern)), "raw_hex",
                 Decoder("hex_bytes_decoder", "", 0)),
         Variant(BinText(pattern), "binary", Decoder("binary_decoder", "", 0)),
         Variant(crypt_rot13(pattern), "raw_rot13", Decoder("crypt_rot13", "", 0)),
         Variant(crypt_rot47(pattern), "raw_rot47", Decoder("crypt_rot47", "", 0)),
         Variant(RawBinPattern(BinText(pattern)), "raw_binary",
                 Decoder("binary_bytes_decoder", "", 0))>>

\* ----------------------------------------------------------------------
\* The automaton's scan (the Aho-Corasick matcher of the repository)
\* ----------------------------------------------------------------------

\* Variant v's search bytes end at offset end_index (0-based) of haystack.
EndsAt(haystack, end_index, v) ==
    LET n == Len(v.pattern)
    IN  /\ n >= 1
        /\ end_index + 1 >= n
        /\ haystack[end_index + 1] = v.pattern[n]
        /\ \A k \in 1..n : haystack[end_index + 1 - n + k] = v.pattern[k]

\* list(automaton.iter(haystack)): every (end_index, value) whose search
\* bytes end at end_index, by increasing end_index, variants that end at
\* the same offset in the order they were added; nothing is deduplicated.
automaton_iter(words, haystack) ==
    Concat([e \in 1..Len(haystack) |->
              LET Ends(v) == EndsAt(haystack, e - 1, v)
                  out == SelectSeq(words, Ends)
              IN  [j \in 1..Len(out) |-> <<e - 1, out[j]>>]])

\* ----------------------------------------------------------------------
\* postprocess_match
\* ----------------------------------------------------------------------

\* NotPrintable with the upper bound off by one: DEL (127) passes.
NotPrintableThrough127(match_byte) == match_byte < 32 \/ match_byte > 127

NotPrintable(match_byte) == match_byte < 32 \/ match_byte > 126

IsClosingChar(c) == c = CLOSING_CHAR

\* raw_match.split(CLOSING_CHAR)[0] + CLOSING_CHAR when CLOSING_CHAR occurs
CutAfterClosing(raw_match) ==
    IF \E i \in 1..Len(raw_match) : IsClosingChar(raw_match[i])
    THEN Append(CutAtFirst(raw_match, {i \in 1..Len(raw_match) : IsClosingChar(raw_match[i])}),
                CLOSING_CHAR)
    ELSE raw_match

\* postprocess_match(raw_match); enumerate(None) raises TypeError.  The
\* str it returns is ASCII: the sequence of its code points.
postprocess_match(raw_match) ==
    IF raw_match.st # "ok" THEN Raise
    ELSE LET decoded == raw_match.val
             printable == CutAtFirst(decoded, {i \in 1..Len(decoded) : NotPrintable(decoded[i])})
         IN  Ok(CutAfterClosing(printable))

\* ----------------------------------------------------------------------
\* generate_haystacks, as a generator object
\* ----------------------------------------------------------------------

nb_steps(fast) == IF ~fast THEN 33 ELSE 8

\* LastStep with an inclusive range: range(2, nb_steps + 1).
LastStepInclusive(fast) == nb_steps(fast)

\* range(2, nb_steps): the last step of the loop
LastStep(fast) == nb_steps(fast) - 1

\* The generator's frame: where it is suspended, and its loop variables.
GenStart == [at |-> "start", step |-> 0, startpos |-> 0]

\* Resuming the generator: the frame at its next yield, or "end" when the
\* body returns (StopIteration).
gen_resume(g, fast) ==
    CASE g.at = "start" -> [at |-> "stream", step |-> 0, startpos |-> 0]
      [] g.at = "stream" ->
            IF 2 <= LastStep(fast) THEN [at |-> "stride", step |-> 2, startpos |-> 0]
            ELSE [at |-> "reversed", step |-> 0, startpos |-> 0]
      [] g.at = "stride" ->
            IF g.startpos + 1 < g.step
            THEN [at |-> "stride", step |-> g.step, startpos |-> g.startpos + 1]
            ELSE IF g.step + 1 <= LastStep(fast)
            THEN [at |-> "stride", step |-> g.step + 1, startpos |-> 0]
            ELSE [at |-> "reversed", step |-> 0, startpos |-> 0]
      [] g.at = "reversed" -> [at |-> "end", step |-> 0, startpos |-> 0]
      [] g.at = "end" -> g

\* The (haystack, haystack_name) the generator yields when suspended at g.
gen_value(g, base_haystack) ==
    CASE g.at = "stream" -> <<base_haystack, "stream">>
      [] g.at = "stride" ->
            <<Stride(base_haystack, g.startpos, g.step),
              "stream[" \o ToString(g.startpos) \o "::" \o ToString(g.step) \o "]">>
      [] g.at = "reversed" -> <<Reversed(base_haystack), "reversed stream">>

\* sum(1 for _ in generate_haystacks(b'fake haystack', fast)): the yields
\* of the loop nest from `step` on, the inner loop yielding `step` times.
RECURSIVE CountStrides(_, _)
CountStrides(step, fast) ==
    IF step > LastStep(fast) THEN 0 ELSE step + CountStrides(step + 1, fast)

n_haystacks(fast) == 1 + CountStrides(2, fast) + 1

\* ----------------------------------------------------------------------
\* The program's state
\* ----------------------------------------------------------------------

VARIABLES
    pattern,        \* main: args.pattern.encode()
    fast,           \* main: args.fast
    verbose,        \* main: args.verbose
    automaton,      \* main: build_automaton(pattern), <<>> before it is built
    pc,             \* where the run is: a stage, or how it ended
    file_contents,  \* extract_matches: the bytes read
    gen,            \* the frame of generate_haystacks(file_contents, fast)
    haystack,       \* the view being scanned
    haystack_name,
    match_iter,     \* list(automaton.iter(haystack))
    mi,             \* the position of the inner for loop in match_iter (1-based)
    match_found,
    progress,       \* the tqdm bar: [total, n]
    end_index,      \* of the match processed last
    start_index,
    variant,        \* (pattern, enc_desc, decoder) of the match processed last
    raw_match,
    decoded_flag,
    written,        \* the lines of print and tqdm.write, in order
    yielded,        \* what a generate_haystacks generator has yielded so far
    call,           \* the call a unit check made last
    ret             \* and what it returned

vars == <<pattern, fast, verbose, automaton, pc, file_contents, gen, haystack, haystack_name,
          match_iter, mi, match_found, progress, end_index, start_index, variant,
          raw_match, decoded_flag, written, yielded, call, ret>>

scan_vars == <<gen, haystack, haystack_name, match_iter, mi, match_found, progress>>
match_vars == <<end_index, start_index, variant, raw_match, decoded_flag>>
unit_vars == <<yielded, call, ret>>

NoVariant == Variant(<<>>, "", Decoder("", "", 0))
NoCall == [fn |-> "", idx |-> 0, key |-> 0, arg |-> <<>>, data |-> <<>>]

\* A written line: what it is, and the values formatted into it.
HeaderLine(name, enc_desc) ==
    [line |-> "MATCH FOUND!", haystack_name |-> name, enc_desc |-> enc_desc, text |-> <<>>]
FlagLine(text) == [line |-> "flag", haystack_name |-> "", enc_desc |-> "", text |-> text]
TextLine(line) == [line |-> line, haystack_name |-> "", enc_desc |-> "", text |-> <<>>]
\* tqdm.write(binascii.hexlify(raw_match).decode())
HexLine(raw) == [line |-> "hex", haystack_name |-> "", enc_desc |-> "", text |-> hexlify(raw)]

\* What lines 298-301 write for a match: the header, and with --verbose
\* the window in hex.
Announce(name, enc_desc, raw, verbose_mode) ==
    <<HeaderLine(name, enc_desc)>> \o (IF verbose_mode THEN <<HexLine(raw)>> ELSE <<>>)

\* Everything but the inputs and the file, before anything runs.
BlankScan ==
    /\ automaton = <<>>
    /\ gen = GenStart
    /\ haystack = <<>>
    /\ haystack_name = ""
    /\ match_iter = <<>>
    /\ mi = 1
    /\ match_found = FALSE
    /\ progress = [total |-> 0, n |-> 0]
    /\ end_index = 0
    /\ start_index = 0
    /\ variant = NoVariant
    /\ raw_match = <<>>
    /\ decoded_flag = None
    /\ written = <<>>
    /\ yielded = <<>>
    /\ call = NoCall
    /\ ret = None

Blank == file_contents = <<>> /\ BlankScan

\* ----------------------------------------------------------------------
\* The inputs of the scan
\* ----------------------------------------------------------------------

\* The longest flag body, and the bodies: 'x' repeated.
MaxBody == 1
FlagBodies == {[i \in 1..n |-> 120] : n \in 0..MaxBody}

\* "A" and "F{"
ScanPatterns == {<<65>>, <<70, 123>>}

\* The flags that start with pattern p and close with '}'.
Flags(p) == {p \o body \o <<CLOSING_CHAR>> : body \in FlagBodies}

\* b64encode(F) with the '=' padding stripped
B64Stripped(F) == Rstrip(b64encode(F), PadChar)

\* F's bytes at start, start + step, ..., filler '.' elsewhere
Interleave(F, start, step) ==
    [i \in 1..(start + step * Len(F)) |->
        IF i > start /\ (i - 1 - start) % step = 0 THEN F[((i - 1 - start) \div step) + 1]
        ELSE 46]

\* Files that hide flag F.
Hidings(F) ==
    { F,
      <<46>> \o F \o <<46>>,
      F \o F,
      B64Stripped(F),
      hexlify(F),
      BinText(F),
      EncodeCodec("utf-16-le", F),
      XorBytes(7, F),
      Reversed(F),
      Interleave(F, 1, 3) }

\* A file longer than MAX_FLAG_LENGTH: the shortest flag, then filler.
LongFile(p) == p \o <<CLOSING_CHAR>> \o [i \in 1..MAX_FLAG_LENGTH |-> 46]

\* The files a run with pattern p may read: the long file is read with
\* --fast, which the program's help recommends for larger files.
Files(p, fast_mode) ==
    UNION {Hidings(F) : F \in Flags(p)} \cup {<<>>, <<46, 46>>}
    \cup (IF fast_mode THEN {LongFile(p)} ELSE {})

\* ----------------------------------------------------------------------
\* main and extract_matches
\* ----------------------------------------------------------------------

Init ==
    /\ pattern \in ScanPatterns
    /\ fast \in BOOLEAN
    /\ verbose \in BOOLEAN
    /\ pc = "main"
    /\ Blank

\* main: build_automaton(pattern), then the call of extract_matches.
Main ==
    /\ pc = "main"
    /\ automaton' = build_automaton(pattern)
    /\ pc' = "open"
    /\ UNCHANGED <<pattern, fast, verbose, file_contents, written>>
    /\ UNCHANGED <<scan_vars, match_vars, unit_vars>>

\* extract_matches, lines 263-272: the file is read, or cannot be opened
\* and the run exits.
OpenFile ==
    /\ pc = "open"
    /\ \/ /\ \E contents \in Files(pattern, fast) : file_contents' = contents
          /\ pc' = "prompt"
          /\ written' = written
       \/ /\ written' = Append(written, TextLine("Error opening file."))
          /\ pc' = "exit@272"
          /\ file_contents' = file_contents
    /\ UNCHANGED <<pattern, fast, verbose, automaton>>
    /\ UNCHANGED <<scan_vars, match_vars, unit_vars>>

\* extract_matches, lines 273-290: the two prompts, each asked only when
\* its condition holds, then the counting of the haystacks and the bar.
Confirm ==
    /\ pc = "prompt"
    /\ \E val \in {"y", "N"}, large_val \in {"y", "N"} :
          IF fast /\ val # "y"
          THEN pc' = "exit@277" /\ UNCHANGED scan_vars
          ELSE IF Len(file_contents) > 50000 /\ large_val # "y"
          THEN pc' = "exit@281" /\ UNCHANGED scan_vars
          ELSE /\ pc' = "scan"
               /\ match_found' = FALSE
               /\ progress' = [total |-> n_haystacks(fast), n |-> 0]
               /\ gen' = GenStart
               /\ UNCHANGED <<haystack, haystack_name, match_iter, mi>>
    /\ UNCHANGED <<pattern, fast, verbose, automaton, file_contents, written>>
    /\ UNCHANGED <<match_vars, unit_vars>>

\* The outer for loop has a next view: lines 291-293, and for a view with
\* no match the rest of the round, lines 309-312.
ScanView ==
    /\ pc = "scan"
    /\ mi > Len(match_iter)
    /\ gen_resume(gen, fast).at # "end"
    /\ LET g == gen_resume(gen, fast)
           view == gen_value(g, file_contents)
           found == automaton_iter(automaton, view[1])
       IN  /\ gen' = g
           /\ haystack' = view[1]
           /\ haystack_name' = view[2]
           /\ match_iter' = found
           /\ mi' = 1
           /\ progress' = IF found = <<>> THEN [progress EXCEPT !.n = @ + 1] ELSE progress
    /\ UNCHANGED <<pattern, fast, verbose, automaton, pc, file_contents, match_found, written>>
    /\ UNCHANGED <<match_vars, unit_vars>>

\* StartIndex without the + 1: the offset before the occurrence.
StartIndexBeforeMatch(end, search_bytes) == end - Len(search_bytes)

\* start_index = end_index - len(pattern) + 1
StartIndex(end, search_bytes) == end - Len(search_bytes) + 1

\* raw_match = haystack[start_index:start_index+MAX_FLAG_LENGTH]
RawWindow(view, start) == Slice(view, start, start + MAX_FLAG_LENGTH)

\* ExitsAfterMatch without lines 306-307: the scan always goes on.
NeverExitsAfterMatch(fast_mode) == FALSE

\* if fast: sys.exit(0)
ExitsAfterMatch(fast_mode) == fast_mode

\* One round of the inner for loop, lines 294-307, and after the last
\* match of the view the rest of the outer round, lines 309-312.  An
\* exception of the decoder or of postprocess_match is not caught: it
\* ends the run.
ProcessMatch ==
    /\ pc = "scan"
    /\ mi <= Len(match_iter)
    /\ LET m == match_iter[mi]
           start == StartIndex(m[1], m[2].pattern)
           raw == RawWindow(haystack, start)
           header == Announce(haystack_name, m[2].enc_desc, raw, verbose)
           decoded == Decode(m[2].decoder, raw)
           processed == postprocess_match(decoded)
       IN  /\ match_found' = TRUE
           /\ end_index' = m[1]
           /\ variant' = m[2]
           /\ start_index' = start
           /\ raw_match' = raw
           /\ decoded_flag' = decoded
           /\ IF decoded.st = "raise" \/ processed.st = "raise"
              THEN /\ written' = written \o header
                   /\ pc' = "exception"
                   /\ UNCHANGED <<mi, progress>>
              ELSE /\ written' = written \o header \o <<FlagLine(processed.val)>>
                   /\ IF ExitsAfterMatch(fast)
                      THEN pc' = "exit@307" /\ UNCHANGED <<mi, progress>>
                      ELSE /\ pc' = pc
                           /\ mi' = mi + 1
                           /\ progress' = IF mi = Len(match_iter)
                                          THEN [progress EXCEPT !.n = @ + 1]
                                          ELSE progress
    /\ UNCHANGED <<pattern, fast, verbose, automaton, file_contents, gen, haystack,
                   haystack_name, match_iter>>
    /\ UNCHANGED unit_vars

\* The generator is exhausted: lines 313-316.
Finish ==
    /\ pc = "scan"
    /\ mi > Len(match_iter)
    /\ gen_resume(gen, fast).at = "end"
    /\ gen' = gen_resume(gen, fast)
    /\ pc' = "done"
    /\ written' = IF ~match_found THEN Append(written, TextLine("No match found."))
                  ELSE written
    /\ UNCHANGED <<pattern, fast, verbose, automaton, file_contents, haystack, haystack_name,
                   match_iter, mi, match_found, progress>>
    /\ UNCHANGED <<match_vars, unit_vars>>

Next == Main \/ OpenFile \/ Confirm \/ ScanView \/ ProcessMatch \/ Finish

Spec == Init /\ [][Next]_vars

\* ----------------------------------------------------------------------
\* generate_haystacks alone: a generator driven to exhaustion
\* ----------------------------------------------------------------------

\* The longest buffer: longer than the largest stride.
MaxBase == 34
HaystackBases == {[i \in 1..n |-> i] : n \in {0, 1, 2, MaxBase}}

InitHaystacks ==
    /\ pattern = <<>>
    /\ fast \in BOOLEAN
    /\ verbose = FALSE
    /\ pc = "generate"
    /\ file_contents \in HaystackBases
    /\ BlankScan

\* next(generator): one more (haystack, haystack_name), or StopIteration.
NextHaystack ==
    /\ pc = "generate"
    /\ LET g == gen_resume(gen, fast)
       IN  /\ gen' = g
           /\ IF g.at = "end"
              THEN pc' = "generated" /\ yielded' = yielded
              ELSE pc' = pc /\ yielded' = Append(yielded, gen_value(g, file_contents))
    /\ UNCHANGED <<pattern, fast, verbose, automaton, file_contents, haystack, haystack_name,
                   match_iter, mi, match_found, progress, written, call, ret>>
    /\ UNCHANGED match_vars

SpecHaystacks == InitHaystacks /\ [][NextHaystack]_vars

\* ----------------------------------------------------------------------
\* build_automaton alone: each variant's decoder on its own search bytes
\* ----------------------------------------------------------------------

\* The patterns: every string of 'A' and '{' of 1..MaxPatLen bytes.
MaxPatLen == 4
RECURSIVE Strings(_, _)
Strings(alphabet, n) ==
    IF n = 0 THEN {<<>>}
    ELSE {<<>>} \cup {<<c>> \o t : c \in alphabet, t \in Strings(alphabet, n - 1)}

VariantPatterns == Strings({65, 123}, MaxPatLen) \ {<<>>}

InitVariants ==
    /\ pattern \in VariantPatterns
    /\ fast = FALSE
    /\ verbose = FALSE
    /\ pc = "build"
    /\ Blank

\* automaton = build_automaton(pattern)
Build ==
    /\ pc = "build"
    /\ automaton' = build_automaton(pattern)
    /\ pc' = "built"
    /\ UNCHANGED <<pattern, fast, verbose, file_contents, written>>
    /\ UNCHANGED <<scan_vars, match_vars, unit_vars>>

\* decoder(search_bytes) for the variant added i-th
CallDecoder ==
    /\ pc = "built"
    /\ \E i \in 1..Len(automaton) :
          /\ call' = [fn |-> "decoder", idx |-> i, key |-> 0,
                      arg |-> automaton[i].pattern, data |-> <<>>]
          /\ ret' = Decode(automaton[i].decoder, automaton[i].pattern)
    /\ pc' = "called"
    /\ UNCHANGED <<pattern, fast, verbose, automaton, file_contents, written, yielded>>
    /\ UNCHANGED <<scan_vars, match_vars>>

SpecVariants == InitVariants /\ [][Build \/ CallDecoder]_vars

\* ----------------------------------------------------------------------
\* The xor variants alone: the decoder of XOR_key on data ^ key
\* ----------------------------------------------------------------------

MaxDataLen == 2
XorData == Strings({0, 65, 255}, MaxDataLen)

InitXor ==
    /\ pattern \in ScanPatterns
    /\ fast = FALSE
    /\ verbose = FALSE
    /\ pc = "build"
    /\ Blank

\* The position in the automaton of the variant with this label.
IndexOf(enc_desc) == CHOOSE i \in 1..Len(automaton) : automaton[i].enc_desc = enc_desc

\* decoder(bytes(key ^ x for x in data)) for the variant labelled XOR_key
CallXor ==
    /\ pc = "built"
    /\ \E key \in 1..255, data \in XorData :
          LET i == IndexOf("XOR_" \o ToString(key))
          IN  /\ call' = [fn |-> "xor", idx |-> i, key |-> key,
                          arg |-> XorBytes(key, data), data |-> data]
              /\ ret' = Decode(automaton[i].decoder, XorBytes(key, data))
    /\ pc' = "called"
    /\ UNCHANGED <<pattern, fast, verbose, automaton, file_contents, written, yielded>>
    /\ UNCHANGED <<scan_vars, match_vars>>

SpecXor == InitXor /\ [][Build \/ CallXor]_vars

\* ----------------------------------------------------------------------
\* postprocess_match alone
\* ----------------------------------------------------------------------

\* Decoded bytes around the printable range 32..126, and '}'.
MaxDecodedLen == 3
DecodedInputs == Strings({31, 32, 65, CLOSING_CHAR, 126, 127}, MaxDecodedLen)

InitPostprocess ==
    /\ pattern = <<>>
    /\ fast = FALSE
    /\ verbose = FALSE
    /\ pc = "decoded"
    /\ Blank

\* postprocess_match(d)
CallPostprocess ==
    /\ pc = "decoded"
    /\ \E d \in DecodedInputs :
          /\ call' = [fn |-> "postprocess_match", idx |-> 0, key |-> 0,
                      arg |-> d, data |-> <<>>]
          /\ ret' = postprocess_match(Ok(d))
    /\ pc' = "called"
    /\ UNCHANGED <<pattern, fast, verbose, automaton, file_contents, written, yielded>>
    /\ UNCHANGED <<scan_vars, match_vars>>

SpecPostprocess == InitPostprocess /\ [][CallPostprocess]_vars

\* ----------------------------------------------------------------------
\* The properties
\* ----------------------------------------------------------------------

IsPrefix(a, b) == Len(a) <= Len(b) /\ \A i \in 1..Len(a) : a[i] = b[i]

\* The variant build_automaton registered under this label.
VariantOf(enc_desc) == automaton[IndexOf(enc_desc)]

\* The nibble values of hexlify(p), high nibble first.
Nibbles(p) ==
    [j \in 1..(2 * Len(p)) |->
        IF j % 2 = 1 THEN p[(j + 1) \div 2] \div 16 ELSE p[(j + 1) \div 2] % 16]

\* The bit values of p, most significant first.
Bits(p) == [j \in 1..(8 * Len(p)) |-> (p[((j - 1) \div 8) + 1] \div Pow2(7 - ((j - 1) % 8))) % 2]

\* C1: for every variant build_automaton registers for the pattern, the
\* variant's decoder applied to the variant's own search bytes returns
\* exactly the pattern.
C1_RoundTrip == (pc = "called" /\ call.fn = "decoder") => ret = Ok(pattern)

\* C8: raw_hex searches for the nibble values of hexlify(P) (each 0..15,
\* 2*len(P) of them) and raw_binary for the bit values of P (each 0 or 1,
\* 8*len(P) of them), and both differ from the search bytes of the
\* printable hex and binary variants.
C8_RawSearchBytes ==
    pc = "built" =>
        /\ VariantOf("raw_hex").pattern = Nibbles(pattern)
        /\ VariantOf("raw_binary").pattern = Bits(pattern)
        /\ VariantOf("raw_hex").pattern # VariantOf("hex").pattern
        /\ VariantOf("raw_binary").pattern # VariantOf("binary").pattern

\* search_bytes is `stripped`, less its last symbol exactly when drop holds.
TrimmedWhen(search_bytes, stripped, drop) ==
    /\ IsPrefix(search_bytes, stripped)
    /\ Len(stripped) - Len(search_bytes) = (IF drop THEN 1 ELSE 0)

C7_XorSameKey ==
    (pc = "called" /\ call.fn = "xor") =>
        /\ automaton[call.idx].enc_desc = "XOR_" \o ToString(call.key)
        /\ automaton[call.idx].pattern = [i \in 1..Len(pattern) |-> XorInt(pattern[i], call.key)]
        /\ call.arg = [i \in 1..Len(call.data) |-> XorInt(call.data[i], call.key)]
        /\ ret = Ok(call.data)

\* The decoder of a key other than the last one, on data of full length.
C7_Witness ==
    /\ pc = "called"
    /\ call.fn = "xor"
    /\ call.key = 1
    /\ Len(call.data) = MaxDataLen
    /\ ret = Ok(call.data)

\* C6: postprocess_match(d) is the longest leading run of printable ASCII
\* (32..126) of d, cut right after the first '}' of that run: a prefix of
\* d, printable, with '}' at most once and only as its last byte.
C6_PrintablePrefix ==
    (pc = "called" /\ call.fn = "postprocess_match") =>
        LET d == call.arg
            r == ret.val
        IN  /\ ret.st = "ok"
            /\ IsPrefix(r, d)
            /\ \A i \in 1..Len(r) : r[i] >= 32 /\ r[i] <= 126
            /\ \A i \in 1..(Len(r) - 1) : r[i] # CLOSING_CHAR
            /\ \/ (r # <<>> /\ r[Len(r)] = CLOSING_CHAR)
               \/ Len(r) = Len(d)
               \/ d[Len(r) + 1] < 32
               \/ d[Len(r) + 1] > 126

\* A decoded sequence with printable bytes after its first '}'.
C6_Witness ==
    /\ pc = "called"
    /\ call.fn = "postprocess_match"
    /\ Len(ret.val) = 2
    /\ ret.val[2] = CLOSING_CHAR
    /\ Len(call.arg) = 3
    /\ call.arg[3] = 65

\* The bytes of base at positions start, start + step, start + 2*step, ...
SubsequenceAt(base, start, step) ==
    [i \in 1..Cardinality({k \in 0..Len(base) : start + k * step < Len(base)}) |->
        base[start + (i - 1) * step + 1]]

\* The views of one stride step, start offsets 0..step-1 in order.
StrideViews(base, step) ==
    [s \in 1..step |->
        <<SubsequenceAt(base, s - 1, step),
          "stream[" \o ToString(s - 1) \o "::" \o ToString(step) \o "]">>]

\* 'stream', the strides 2..last in order, 'reversed stream'.
ViewsThrough(base, last) ==
    <<<<base, "stream">>>>
    \o Concat([k \in 1..(last - 1) |-> StrideViews(base, k + 1)])
    \o <<<<[i \in 1..Len(base) |-> base[Len(base) + 1 - i]], "reversed stream">>>>

\* 1 + (2 + 3 + ... + last) + 1
ViewCount(last) == 1 + (((last * (last + 1)) \div 2) - 1) + 1

\* C4 as claimed: the generator yields 'stream', then the strides from 2
\* up to and including 33 (8 in fast mode), then 'reversed stream'.
C4_StridesThroughMaximum ==
    pc = "generated" =>
        /\ yielded = ViewsThrough(file_contents, IF fast THEN 8 ELSE 33)
        /\ Len(yielded) = ViewCount(IF fast THEN 8 ELSE 33)

\* C4 amended: the strides run from 2 up to and including 32 (7 in fast
\* mode), so 1 + (2+...+32) + 1 = 529 views, 1 + (2+...+7) + 1 = 29 in
\* fast mode.
C4_StridesBelowMaximum ==
    pc = "generated" =>
        /\ yielded = ViewsThrough(file_contents, IF fast THEN 7 ELSE 32)
        /\ Len(yielded) = ViewCount(IF fast THEN 7 ELSE 32)
        /\ Len(yielded) = (IF fast THEN 29 ELSE 529)

\* A full-mode generator exhausted on a buffer longer than every stride.
C4_Witness ==
    /\ pc = "generated"
    /\ ~fast
    /\ Len(file_contents) > 33
    /\ Len(yielded) = 529

\* The views a run scans, in generation order.
ScannedViews == ViewsThrough(file_contents, IF fast THEN 7 ELSE 32)

\* What a match (end_index, value) found in a view makes the run write.
LinesOf(view, m) ==
    LET start == m[1] - Len(m[2].pattern) + 1
        window == SubSeq(view[1], start + 1, Min(Len(view[1]), start + MAX_FLAG_LENGTH))
        decoded == Decode(m[2].decoder, window)
        header == Announce(view[2], m[2].enc_desc, window, verbose)
    IN  IF decoded.st = "ok" THEN header \o <<FlagLine(postprocess_match(decoded).val)>>
        ELSE header

\* The lines of every match of one view, in the matcher's order.
ViewLines(view) ==
    LET found == automaton_iter(automaton, view[1])
    IN  Concat([j \in 1..Len(found) |-> LinesOf(view, found[j])])

\* The lines of every match of every view.
AllLinesOf(views) == Concat([k \in 1..Len(views) |-> ViewLines(views[k])])

AllLines == AllLinesOf(ScannedViews)

\* The lines of the first match of the first view, from the k-th on, that
\* has one.
RECURSIVE FirstLinesFrom(_, _)
FirstLinesFrom(views, k) ==
    LET found == automaton_iter(automaton, views[k][1])
    IN  IF found # <<>> THEN LinesOf(views[k], found[1]) ELSE FirstLinesFrom(views, k + 1)

FirstLines == FirstLinesFrom(ScannedViews, 1)

FlagLines == {i \in 1..Len(written) : written[i].line = "flag"}

\* What a run that scanned every view has written.
WrittenByFullScan ==
    LET all == AllLines
    IN  IF all = <<>> THEN <<TextLine("No match found.")>> ELSE all

MatchProcessed == variant # NoVariant /\ (mi > 1 \/ pc \in {"exit@307", "exception"})

\* C2: when the decoder of a match cannot decode the window (it returns
\* None or raises), no result is reported for the match, the run does not
\* abort, and the scan goes on.
C2_DecodeFailureIsLocal ==
    (MatchProcessed /\ decoded_flag.st # "ok") =>
        /\ pc # "exception"
        /\ written = <<>> \/ written[Len(written)].line \notin {"MATCH FOUND!", "hex"}

\* C5: when the file is b64encode(F) without its padding, for a flag F
\* that starts with the pattern and closes with its only '}', the base64
\* search bytes are a prefix of the file and the run reports F for the
\* base64 variant in the 'stream' view.
C5_Base64Recovery ==
    \A F \in Flags(pattern) :
        (pc = "done" /\ ~fast /\ file_contents = B64Stripped(F)) =>
            /\ IsPrefix(VariantOf("base64").pattern, file_contents)
            /\ \E i \in 1..(Len(written) - 2) :
                  /\ written[i] = HeaderLine("stream", "base64")
                  /\ written[i + (IF verbose THEN 2 ELSE 1)] = FlagLine(F)

\* C10: for every match processed, start_index = end_index -
\* len(search_bytes) + 1 lies in 0..end_index, the window is
\* view[start_index : start_index + 2000], of length min(2000, len(view) -
\* start_index), and it starts with the search bytes (with their first
\* 2000).
C10_RawWindow ==
    MatchProcessed =>
        LET search_bytes == variant.pattern
            n == Min(MAX_FLAG_LENGTH, Len(haystack) - start_index)
        IN  /\ start_index = end_index - Len(search_bytes) + 1
            /\ 0 <= start_index
            /\ start_index <= end_index
            /\ Len(raw_match) = n
            /\ raw_match = [i \in 1..n |-> haystack[start_index + i]]
            /\ \A i \in 1..Min(Len(search_bytes), MAX_FLAG_LENGTH) :
                  raw_match[i] = search_bytes[i]

\* A match whose view runs on for more than 2000 bytes: the cap cuts it.
C10_Witness ==
    /\ MatchProcessed
    /\ Len(haystack) - start_index > MAX_FLAG_LENGTH
    /\ Len(raw_match) = MAX_FLAG_LENGTH

====
